---- MODULE Spec2Model ----
(***************************************************************************)
(* Model of the otel-instrumentation-example program: main() wires two     *)
(* periodic readers to a MeterProvider, createAndRecordMetrics() creates   *)
(* the sample instruments and records the sample values, then main waits   *)
(* for SIGINT and returns, which runs the deferred MeterProvider.Shutdown. *)
(*                                                                         *)
(* Two revisions of the program are modelled: src/main.go (empty           *)
(* createAndRecordMetrics, no resource) and src/unnamed/part_000 (full).   *)
(* Histogram values are in thousandths of a second (0.023 s = 23).         *)
(***************************************************************************)
EXTENDS Integers, Sequences, FiniteSets, TLC

VARIABLES build, pc, bi, ctxDone, providerCreated, deferred, shutdownCalls,
          exitCode, fatalAt, instruments, sums, last, hist, callbacks,
          cycles, exported, flushed

vars == <<build, pc, bi, ctxDone, providerCreated, deferred, shutdownCalls,
          exitCode, fatalAt, instruments, sums, last, hist, callbacks,
          cycles, exported, flushed>>

\* ---------------------------------------------------------------- bounds

\* Timer ticks of one periodic reader that are explored.
MaxCycles == 2

\* time.Now().Unix() is drawn from 1..MaxTime.
MaxTime == 2

Times == 1..MaxTime

\* ------------------------------------------------------------- constants

Builds == {"main.go", "part_000"}

\* The two PeriodicReaders handed to NewMeterProvider.
Readers == {"otlp", "stdout"}

\* Value the observable gauge callback reports.
ObservedValue == 23

NoAttrs == {}

Attrs(method, path) == {<<"demo.method", method>>, <<"demo.path", path>>}

\* line is the line of the call, or for a create the line of its log.Fatalf.
Create(name, kind, line) ==
    [op |-> "create", inst |-> name, kind |-> kind, val |-> 0,
     attrs |-> NoAttrs, line |-> line]

AddStmt(name, d, attrs, line) ==
    [op |-> "add", inst |-> name, kind |-> "", val |-> d,
     attrs |-> attrs, line |-> line]

RecordStmt(name, v, line) ==
    [op |-> "record", inst |-> name, kind |-> "", val |-> v,
     attrs |-> NoAttrs, line |-> line]

\* The statements of createAndRecordMetrics in part_000, in program order.
FullBody ==
    << Create("demo.handled_items", "Counter", 80),
       AddStmt("demo.handled_items", 1, NoAttrs, 82),
       AddStmt("demo.handled_items", 23, NoAttrs, 83),
       Create("demo.queue_length", "UpDownCounter", 88),
       AddStmt("demo.queue_length", 5, NoAttrs, 90),
       AddStmt("demo.queue_length", -2, NoAttrs, 91),
       Create("demo.start_time", "Gauge", 96),
       RecordStmt("demo.start_time", 0, 98),
       Create("demo.request.duration", "Histogram", 108),
       RecordStmt("demo.request.duration", 23, 110),
       RecordStmt("demo.request.duration", 1632, 111),
       RecordStmt("demo.request.duration", 345, 112),
       RecordStmt("demo.request.duration", 123, 113),
       Create("demo.observed_value", "ObservableGauge", 124),
       Create("demo.request.count", "Counter", 132),
       AddStmt("demo.request.count", 58, Attrs("GET", "/items"), 136),
       AddStmt("demo.request.count", 81, Attrs("POST", "/items"), 137),
       AddStmt("demo.request.count", 33, Attrs("GET", "/users"), 138),
       AddStmt("demo.request.count", 97, Attrs("POST", "/users"), 139) >>

\* createAndRecordMetrics of the given revision.
Body(b) == IF b = "part_000" THEN FullBody ELSE << >>

Stmt == Body(build)[bi]

InBody == pc = "body" /\ bi <= Len(Body(build))

Running == pc \notin {"exited"}

\* ------------------------------------------------------------ aggregation

\* Faulty Counter: Add overwrites the running value instead of adding to it.
Int64CounterAdd_Overwrite(cur, incr) == incr

\* counter.Add(ctx, incr): "Increment the counter by incr".
Int64CounterAdd(cur, incr) == cur + incr

\* Faulty UpDownCounter: a negative delta is dropped, as for a monotonic Counter.
Int64UpDownCounterAdd_DropNegative(cur, incr) == IF incr < 0 THEN cur ELSE cur + incr

\* upDownCounter.Add(ctx, incr): "Increment by 5" / "Decrement by 2".
Int64UpDownCounterAdd(cur, incr) == cur + incr

\* Current value of a stream, 0 when nothing was recorded under attrs yet.
Cur(f, attrs) == IF attrs \in DOMAIN f THEN f[attrs] ELSE 0

\* f with the stream of attrs set to v.
Put(f, attrs, v) == [a \in DOMAIN f \cup {attrs} |-> IF a = attrs THEN v ELSE f[a]]

\* g with key k bound to v.
Bind(g, k, v) == [x \in DOMAIN g \cup {k} |-> IF x = k THEN v ELSE g[x]]

EmptyFn == [x \in {} |-> 0]

NoSnap == [cut |-> -1]

\* What a reader sends: the current value of every stream, and the value the
\* callback of every registered observable gauge reports now.
Snapshot ==
    [cut |-> bi - 1, sums |-> sums, last |-> last, hist |-> hist,
     observed |-> [n \in callbacks |-> ObservedValue]]

\* ------------------------------------------------------------------ Init

Init ==
    /\ build \in Builds
    /\ pc = "notify"
    /\ bi = 1
    /\ ctxDone = FALSE
    /\ providerCreated = FALSE
    /\ deferred = FALSE
    /\ shutdownCalls = 0
    /\ exitCode = -1
    /\ fatalAt = 0
    /\ instruments = EmptyFn
    /\ sums = EmptyFn
    /\ last = EmptyFn
    /\ hist = EmptyFn
    /\ callbacks = {}
    /\ cycles = [r \in Readers |-> 0]
    /\ exported = [r \in Readers |-> NoSnap]
    /\ flushed = [r \in Readers |-> FALSE]

storeVars == <<instruments, sums, last, hist, callbacks>>
readerVars == <<cycles, exported, flushed>>
mainVars == <<build, ctxDone, providerCreated, deferred, shutdownCalls>>

\* log.Fatalf at the given source line: os.Exit(1), deferred calls do not run.
Fatalf(line) ==
    /\ pc' = "exited"
    /\ exitCode' = 1
    /\ fatalAt' = line

Goto(next) ==
    /\ pc' = next
    /\ UNCHANGED <<exitCode, fatalAt>>

\* ------------------------------------------------------------------ main

\* ctx, stop := signal.NotifyContext(context.Background(), os.Interrupt)
NotifyContext ==
    /\ pc = "notify"
    /\ Goto("otlp")
    /\ UNCHANGED <<mainVars, bi, storeVars, readerVars>>

\* otlpmetrichttp.New(...); a non-nil err is fatal.
NewOtlpExporter ==
    /\ pc = "otlp"
    /\ \E err \in BOOLEAN :
          IF err THEN Fatalf(IF build = "part_000" THEN 27 ELSE 24)
                 ELSE Goto("stdout")
    /\ UNCHANGED <<mainVars, bi, storeVars, readerVars>>

\* stdoutmetric.New(...); a non-nil err is fatal.
NewStdoutExporter ==
    /\ pc = "stdout"
    /\ \E err \in BOOLEAN :
          IF err THEN Fatalf(IF build = "part_000" THEN 33 ELSE 30)
                 ELSE Goto(IF build = "part_000" THEN "resource" ELSE "provider")
    /\ UNCHANGED <<mainVars, bi, storeVars, readerVars>>

\* resource.Merge(...); a non-nil err is fatal (part_000 only).
ResourceMerge ==
    /\ pc = "resource"
    /\ \E err \in BOOLEAN :
          IF err THEN Fatalf(45) ELSE Goto("provider")
    /\ UNCHANGED <<mainVars, bi, storeVars, readerVars>>

\* meterProvider := NewMeterProvider(WithReader(..), WithReader(..)) followed by
\* defer meterProvider.Shutdown(context.Background()).
NewMeterProvider ==
    /\ pc = "provider"
    /\ providerCreated' = TRUE
    /\ deferred' = TRUE
    /\ Goto("meter")
    /\ UNCHANGED <<build, ctxDone, shutdownCalls, bi, storeVars, readerVars>>

\* otel.SetMeterProvider(meterProvider); meter := otel.Meter(...); the call of
\* createAndRecordMetrics(ctx, meter) starts.
SetMeterProvider ==
    /\ pc = "meter"
    /\ Goto("body")
    /\ UNCHANGED <<mainVars, bi, storeVars, readerVars>>

\* createAndRecordMetrics returns to main.
BodyReturn ==
    /\ pc = "body"
    /\ bi = Len(Body(build)) + 1
    /\ Goto("wait")
    /\ UNCHANGED <<mainVars, bi, storeVars, readerVars>>

\* SIGINT is delivered while the NotifyContext registration is in place.
Interrupt ==
    /\ pc \notin {"notify", "exited"}
    /\ ~ctxDone
    /\ ctxDone' = TRUE
    /\ UNCHANGED <<build, providerCreated, deferred, shutdownCalls, pc, bi,
                   exitCode, fatalAt, storeVars, readerVars>>

\* <-ctx.Done(); log.Println("Shutting down..."); stop()
WaitDone ==
    /\ pc = "wait"
    /\ ctxDone
    /\ Goto("return")
    /\ UNCHANGED <<mainVars, bi, storeVars, readerVars>>

\* main returns: the deferred meterProvider.Shutdown runs (every reader is
\* flushed and shut down), then the process exits with status 0.
Shutdown ==
    /\ pc = "return"
    /\ deferred
    /\ shutdownCalls' = shutdownCalls + 1
    /\ exported' = [r \in Readers |-> Snapshot]
    /\ flushed' = [r \in Readers |-> TRUE]
    /\ pc' = "exited"
    /\ exitCode' = 0
    /\ UNCHANGED <<build, ctxDone, providerCreated, deferred, bi, fatalAt,
                   storeVars, cycles>>

\* ------------------------------------------------- createAndRecordMetrics

\* meter.Int64Counter / Int64UpDownCounter / Int64Gauge / Float64Histogram /
\* Int64ObservableGauge; a non-nil err is fatal.
CreateInstrument ==
    /\ InBody
    /\ Stmt.op = "create"
    /\ \E err \in BOOLEAN :
          IF err
          THEN /\ Fatalf(Stmt.line)
               /\ UNCHANGED <<bi, storeVars>>
          ELSE /\ Goto("body")
               /\ bi' = bi + 1
               /\ instruments' = Bind(instruments, Stmt.inst, Stmt.kind)
               /\ sums' = IF Stmt.kind \in {"Counter", "UpDownCounter"}
                          THEN Bind(sums, Stmt.inst, EmptyFn) ELSE sums
               /\ last' = IF Stmt.kind = "Gauge"
                          THEN Bind(last, Stmt.inst, EmptyFn) ELSE last
               /\ hist' = IF Stmt.kind = "Histogram"
                          THEN Bind(hist, Stmt.inst, [count |-> 0, sum |-> 0])
                          ELSE hist
               /\ callbacks' = IF Stmt.kind = "ObservableGauge"
                               THEN callbacks \cup {Stmt.inst} ELSE callbacks
    /\ UNCHANGED <<mainVars, readerVars>>

\* counter.Add(ctx, incr, attrs...)
CounterAdd ==
    /\ InBody
    /\ Stmt.op = "add"
    /\ instruments[Stmt.inst] = "Counter"
    /\ sums' = [sums EXCEPT ![Stmt.inst] =
                  Put(@, Stmt.attrs, Int64CounterAdd(Cur(@, Stmt.attrs), Stmt.val))]
    /\ bi' = bi + 1
    /\ Goto("body")
    /\ UNCHANGED <<mainVars, instruments, last, hist, callbacks, readerVars>>

\* upDownCounter.Add(ctx, incr)
UpDownCounterAdd ==
    /\ InBody
    /\ Stmt.op = "add"
    /\ instruments[Stmt.inst] = "UpDownCounter"
    /\ sums' = [sums EXCEPT ![Stmt.inst] =
                  Put(@, Stmt.attrs, Int64UpDownCounterAdd(Cur(@, Stmt.attrs), Stmt.val))]
    /\ bi' = bi + 1
    /\ Goto("body")
    /\ UNCHANGED <<mainVars, instruments, last, hist, callbacks, readerVars>>

\* gauge.Record(ctx, time.Now().Unix())
GaugeRecord ==
    /\ InBody
    /\ Stmt.op = "record"
    /\ instruments[Stmt.inst] = "Gauge"
    /\ \E now \in Times :
          last' = [last EXCEPT ![Stmt.inst] = Put(@, Stmt.attrs, now)]
    /\ bi' = bi + 1
    /\ Goto("body")
    /\ UNCHANGED <<mainVars, instruments, sums, hist, callbacks, readerVars>>

\* histogram.Record(ctx, v)
HistogramRecord ==
    /\ InBody
    /\ Stmt.op = "record"
    /\ instruments[Stmt.inst] = "Histogram"
    /\ hist' = [hist EXCEPT ![Stmt.inst] =
                  [count |-> @.count + 1, sum |-> @.sum + Stmt.val]]
    /\ bi' = bi + 1
    /\ Goto("body")
    /\ UNCHANGED <<mainVars, instruments, sums, last, callbacks, readerVars>>

\* ---------------------------------------------------------------- readers

\* A periodic reader's 5-second timer fires: it sends the current metrics to
\* its exporter.
Collect(r) ==
    /\ providerCreated
    /\ Running
    /\ cycles[r] < MaxCycles
    /\ cycles' = [cycles EXCEPT ![r] = @ + 1]
    /\ exported' = [exported EXCEPT ![r] = Snapshot]
    /\ UNCHANGED <<mainVars, pc, bi, exitCode, fatalAt, storeVars, flushed>>

Next ==
    \/ NotifyContext
    \/ NewOtlpExporter
    \/ NewStdoutExporter
    \/ ResourceMerge
    \/ NewMeterProvider
    \/ SetMeterProvider
    \/ CreateInstrument
    \/ CounterAdd
    \/ UpDownCounterAdd
    \/ GaugeRecord
    \/ HistogramRecord
    \/ BodyReturn
    \/ Interrupt
    \/ WaitDone
    \/ Shutdown
    \/ \E r \in Readers : Collect(r)

Spec == Init /\ [][Next]_vars

\* ----------------------------------------------------------- properties

\* Names of the instruments of the given kind that createAndRecordMetrics creates.
Created(kind) ==
    {FullBody[i].inst : i \in {j \in 1..Len(FullBody) :
                                  FullBody[j].op = "create" /\ FullBody[j].kind = kind}}

\* Attribute sets that occur in an Add call.
AllAttrs == {FullBody[i].attrs : i \in 1..Len(FullBody)}

\* Sum of the deltas passed to Add for (name, attrs) by the first n statements of
\* the body; with nonNeg only the non-negative ones.
RECURSIVE DeltaSum(_, _, _, _, _)
DeltaSum(b, name, attrs, n, nonNeg) ==
    IF n = 0 THEN 0
    ELSE DeltaSum(b, name, attrs, n - 1, nonNeg)
         + (IF /\ Body(b)[n].op = "add"
               /\ Body(b)[n].inst = name
               /\ Body(b)[n].attrs = attrs
               /\ (nonNeg => Body(b)[n].val >= 0)
            THEN Body(b)[n].val ELSE 0)

\* Value a snapshot shows for stream (name, attrs); 0 when the stream is absent.
SnapValue(s, name, attrs) ==
    IF s = NoSnap THEN 0
    ELSE IF name \in DOMAIN s.sums THEN Cur(s.sums[name], attrs) ELSE 0

CounterSnapshotIsSum ==
    \A r \in Readers : \A name \in Created("Counter") : \A a \in AllAttrs :
        exported[r] # NoSnap =>
            SnapValue(exported[r], name, a)
                = DeltaSum(build, name, a, exported[r].cut, TRUE)

CounterSnapshotMonotone ==
    \A r \in Readers : \A name \in Created("Counter") : \A a \in AllAttrs :
        SnapValue(exported'[r], name, a) >= SnapValue(exported[r], name, a)

\* C1: every snapshot a reader sends shows, for every Counter and attribute set,
\* the sum of the non-negative deltas recorded before the snapshot was taken, and
\* a later snapshot of the same reader never shows a smaller value than the
\* earlier one (record(1), record(23) on "demo.handled_items" gives 24).
C1_CounterCumulativeSum ==
    /\ [](CounterSnapshotIsSum
          /\ \A r \in Readers :
                (exported[r] # NoSnap /\ exported[r].cut >= 3)
                    => SnapValue(exported[r], "demo.handled_items", NoAttrs) = 24)
    /\ [][CounterSnapshotMonotone]_vars

\* One reader sent a snapshot between record(1) and record(23), another reader
\* sent a timer-driven snapshot after all Counter recordings.
C1_Witness ==
    \E r1, r2 \in Readers :
        /\ exported[r1] # NoSnap /\ exported[r1].cut = 2
        /\ SnapValue(exported[r1], "demo.handled_items", NoAttrs) = 1
        /\ exported[r2] # NoSnap /\ exported[r2].cut = Len(FullBody)
        /\ ~flushed[r2]
        /\ SnapValue(exported[r2], "demo.handled_items", NoAttrs) = 24
        /\ SnapValue(exported[r2], "demo.request.count", Attrs("GET", "/users")) = 33

\* Lines of the Add calls made with a negative delta.
NegativeAddLines ==
    {FullBody[i].line : i \in {j \in 1..Len(FullBody) :
                                  FullBody[j].op = "add" /\ FullBody[j].val < 0}}

\* C2: the value of every UpDownCounter, in the store and in every snapshot, is
\* the signed sum of all deltas recorded so far, and the program never fails at
\* an Add with a negative delta (record(5), record(-2) on "demo.queue_length"
\* gives 3).
C2_UpDownSignedSum ==
    /\ \A name \in Created("UpDownCounter") : \A a \in AllAttrs :
          /\ (name \in DOMAIN sums =>
                 Cur(sums[name], a) = DeltaSum(build, name, a, bi - 1, FALSE))
          /\ \A r \in Readers :
                exported[r] # NoSnap =>
                    SnapValue(exported[r], name, a)
                        = DeltaSum(build, name, a, exported[r].cut, FALSE)
    /\ \A r \in Readers :
          (exported[r] # NoSnap /\ exported[r].cut >= 6)
              => SnapValue(exported[r], "demo.queue_length", NoAttrs) = 3
    /\ fatalAt \notin NegativeAddLines

\* A timer-driven snapshot was sent after record(5), record(-2), and another one
\* between the two calls.
C2_Witness ==
    \E r1, r2 \in Readers :
        /\ exported[r1] # NoSnap /\ exported[r1].cut = 5
        /\ SnapValue(exported[r1], "demo.queue_length", NoAttrs) = 5
        /\ exported[r2] # NoSnap /\ exported[r2].cut >= 6
        /\ ~flushed[r2]
        /\ SnapValue(exported[r2], "demo.queue_length", NoAttrs) = 3

\* C10: whenever the process has exited after the meter provider was created,
\* Shutdown was invoked exactly once; and Shutdown is invoked only after
\* createAndRecordMetrics has returned and the interrupt context is done, so the
\* final flush of every reader is taken after the last recording.
C10_ShutdownOnEveryExit ==
    /\ (pc = "exited" /\ providerCreated) => shutdownCalls = 1
    /\ shutdownCalls <= 1
    /\ shutdownCalls = 1 =>
          /\ ctxDone
          /\ bi = Len(Body(build)) + 1
          /\ \A r \in Readers :
                flushed[r] /\ exported[r].cut = Len(Body(build))

====
